---------------------------- MODULE Spec2Model ----------------------------
(***************************************************************************)
(* Farmer Harvest: the game loop, the run/level state machine, the spawn   *)
(* scheduler and the collision/scoring pass of src/Game.js, with the       *)
(* entities of src/unnamed/part_001 (Farmer), src/Crop.js,                 *)
(* src/Obstacle.js and the PowerUp module at the end of                    *)
(* src/main_basefile.js, and the keyboard adapter of src/input.js.         *)
(*                                                                         *)
(* Units.  The code computes in seconds and pixels with floating point.    *)
(* The model keeps every quantity an integer: times are milliseconds       *)
(* (dt = min(ts - lastTime, 33) ms stands for min((ts-lastTime)/1000,      *)
(* 0.033) s, the configuration's seconds are written in ms) and positions  *)
(* and sizes are millipixels, so that speed [px/s] * dt [ms] is a          *)
(* displacement in millipixels.                                            *)
(***************************************************************************)
EXTENDS Integers, Sequences, FiniteSets, TLC

VARIABLES
    state,              \* Game.state
    level,              \* Game.level
    config,             \* Game.config: [loaded, levels]; loaded = FALSE is null
    requiredScore,      \* Game.requiredScore (the cumulative goal)
    goal,               \* Game.goal (mirror of requiredScore for the UI)
    maxTime,            \* Game.maxTime
    timeLeft,           \* Game.timeLeft
    spawnEvery,         \* Game.spawnEvery
    powerUpSpawnEvery,  \* Game.powerUpSpawnEvery
    crowSpawnEvery,     \* Game.crowSpawnEvery
    accumSpawn,         \* Game._accumSpawn
    accumPowerUpSpawn,  \* Game._accumPowerUpSpawn
    accumCrowSpawn,     \* Game._accumCrowSpawn
    score,              \* Game.score
    lastTime,           \* Game.lastTime
    player,             \* Game.player (a Farmer)
    crops,              \* Game.crops
    obstacles,          \* Game.obstacles (Scarecrows)
    powerUps,           \* Game.powerUps
    crows,              \* Game.crows
    keys,               \* Input.keys
    now,                \* performance.now(), the host's clock
    fetching,           \* fetch('config.json') requests in flight: how many
                        \* start() issued in each state
    rafQueue,           \* tick callbacks requested for the next frame
    rafRun,             \* tick callbacks of the running frame not yet run
    ev                  \* history: what the last handler did

gameVars == <<state, level, requiredScore, goal, maxTime, timeLeft, spawnEvery,
              powerUpSpawnEvery, crowSpawnEvery, accumSpawn, accumPowerUpSpawn,
              accumCrowSpawn, score, player, crops, obstacles, powerUps, crows>>

vars == <<gameVars, config, lastTime, keys, now, fetching, rafQueue, rafRun, ev>>

-----------------------------------------------------------------------------
(* Bounds of the exploration *)

\* The host's clock stops the exploration at MaxNow ms.
MaxNow == 120
\* At most MaxChains self-rescheduling tick chains.
MaxChains == 2
\* At most MaxFetch configuration requests in flight.
MaxFetch == 1

\* Time elapsed between two frames (ms): above the 33 ms cap.  (A second
\* tick callback of the same frame sees 0 ms elapsed, below the cap.)
ElapsedSet == {40}
\* Grid cells <<column, row>> the random placements are drawn from: the cell
\* under the player's start position and the cell to its right.
OnPlayer == <<13, 14>>
RightOfPlayer == <<15, 14>>
\* spawnCrop's draws <<cell, type>>.
CropDraws == {<<OnPlayer, "pumpkin">>, <<OnPlayer, "golden_apple">>,
              <<RightOfPlayer, "wheat">>}
PowerUpCells == {OnPlayer}
CrowCells == {OnPlayer}
ScarecrowCells == {OnPlayer, RightOfPlayer}
\* Headings a crow's random angle is drawn from, as <<5 cos, 5 sin>>.
Headings == {<<-5, 0>>}
\* Keys the keyboard events are drawn from.
Keys == {"ArrowRight", "p"}

-----------------------------------------------------------------------------
(* src/Utils.js *)

WIDTH == 900
HEIGHT == 540
TILE == 30

\* pixels to millipixels
Px(n) == n * 1000

Min(a, b) == IF a < b THEN a ELSE b
Max(a, b) == IF a > b THEN a ELSE b

\* Mutant of clamp: the value as it is.
clampNone(v, lo, hi) == v

clamp(v, lo, hi) == Min(hi, Max(lo, v))

\* Mutant of aabb: the comparisons not strict.
aabbClosed(a, b) ==
    /\ a.x <= b.x + b.w
    /\ a.x + a.w >= b.x
    /\ a.y <= b.y + b.h
    /\ a.y + a.h >= b.y

aabb(a, b) ==
    /\ a.x < b.x + b.w
    /\ a.x + a.w > b.x
    /\ a.y < b.y + b.h
    /\ a.y + a.h > b.y

-----------------------------------------------------------------------------
(* Entities: src/BaseEntity.js, src/unnamed/part_001 (Farmer), src/Crop.js, *)
(* src/Obstacle.js, src/main_basefile.js (PowerUp).  Fields that only feed  *)
(* the drawing (sway, the power-up's angle, sprite and animation frame)     *)
(* are left out; Farmer.vx/vy and Crow.vx/vy are recomputed from the input  *)
(* and the heading at the start of every update and are local there.       *)

\* new Farmer(x, y): 34 x 34, speed 260 px/s, no boost.
Farmer(x, y) ==
    [x |-> x, y |-> y, w |-> Px(34), h |-> Px(34), dead |-> FALSE,
     speed |-> 260, baseSpeed |-> 260, speedBoostEnd |-> 0]

\* The player of the constructor and of resetWithConfig.
NewPlayer == Farmer(Px(WIDTH) \div 2 - Px(17), Px(HEIGHT) - Px(80))

CropTypes == {"wheat", "pumpkin", "golden_apple"}

\* Mutant of CropPoints: the fixed +1 per crop of the game before crop types.
CropPointsFlat(type) == 1

\* { wheat: 1, pumpkin: 3, golden_apple: 5 }[type] || 1
CropPoints(type) ==
    CASE type = "wheat" -> 1
      [] type = "pumpkin" -> 3
      [] type = "golden_apple" -> 5
      [] OTHER -> 1

\* new Crop(x, y, type): 20 x 26.
Crop(x, y, type) ==
    [x |-> x, y |-> y, w |-> Px(20), h |-> Px(26), dead |-> FALSE,
     type |-> type, points |-> CropPoints(type)]

\* new PowerUp(x, y): 16 x 16.
PowerUp(x, y) ==
    [x |-> x, y |-> y, w |-> Px(16), h |-> Px(16), dead |-> FALSE]

\* new Scarecrow(x, y): 26 x 46.
Scarecrow(x, y) ==
    [x |-> x, y |-> y, w |-> Px(26), h |-> Px(46), dead |-> FALSE]

\* new Crow(x, y): 20 x 20, maxSpeed 120 px/s, a random angle; the angle is
\* kept as <<5 cos(angle), 5 sin(angle)>>.
Crow(x, y, angle) ==
    [x |-> x, y |-> y, w |-> Px(20), h |-> Px(20), dead |-> FALSE,
     maxSpeed |-> 120, angle |-> angle]

\* Math.floor(Math.random() * ((WIDTH - 2 TILE) / TILE)) * TILE + TILE, and
\* the same for the row: the top-left corner of grid cell c.
CellX(c) == Px(c[1] * TILE + TILE)
CellY(c) == Px(c[2] * TILE + TILE)

-----------------------------------------------------------------------------
(* Configuration: the catch branch's defaults and what config.json may hold *)

LevelRecord(g, t, s, c, p, n) ==
    [goal |-> g, timeLimit |-> t, spawnEvery |-> s, crowSpawnEvery |-> c,
     powerUpSpawnEvery |-> p, numScarecrows |-> n]

\* Mutant of DefaultConfig: the third level record left out.
DefaultConfigTwoLevels ==
    [loaded |-> TRUE,
     levels |-> << LevelRecord(15, 60000, 800, 5000, 10000, 2),
                   LevelRecord(20, 55000, 600, 4000, 8000, 3) >>]

\* Game.start's fallback (seconds written in ms).
DefaultConfig ==
    [loaded |-> TRUE,
     levels |-> << LevelRecord(15, 60000, 800, 5000, 10000, 2),
                   LevelRecord(20, 55000, 600, 4000, 8000, 3),
                   LevelRecord(25, 50000, 400, 3000, 6000, 4) >>]

\* this.config = null
NoConfig == [loaded |-> FALSE, levels |-> << >>]

\* A three-level config.json with short levels: crops at every level, two
\* crows a frame at levels 2 and 3, two power-ups a frame at level 3.
ShortConfig ==
    [loaded |-> TRUE,
     levels |-> << LevelRecord(3, 100, 30, 1000, 1000, 1),
                   LevelRecord(5, 40, 30, 15, 1000, 2),
                   LevelRecord(1, 60, 30, 15, 15, 1) >>]

\* A config.json that lists two level records only.
TwoLevelConfig ==
    [loaded |-> TRUE,
     levels |-> << LevelRecord(1, 60, 30, 1000, 1000, 1),
                   LevelRecord(1, 60, 30, 1000, 30, 1) >>]

\* What a successful fetch of config.json may deliver.
LoadedConfigs == {ShortConfig, TwoLevelConfig}

\* A config.json with an empty list of levels.
EmptyConfig == [loaded |-> TRUE, levels |-> << >>]

\* What a fetch may deliver that resetWithConfig cannot use.
UnusableConfigs == {EmptyConfig}

\* resetWithConfig(config) reads config.levels[0].goal first: it throws a
\* TypeError when there is no first level record.
Usable(cfg) == Len(cfg.levels) >= 1

-----------------------------------------------------------------------------
(* The game object as a value.  The handlers below are functions from the  *)
(* game's fields g (and the random draws) to the fields they leave; g.ev   *)
(* records what the handler did.                                           *)

\* The history record of a handler that is not an update step.
\* op: the handler; was: the state it found; from: for a run begun by a
\* configuration load, the state in which its start signal was received.
\* For a tick: dt; ran: update got past its state check; expired: time up;
\* nCol, pts: crops collected and their points; advanced, won; nPow:
\* power-ups collected; nHit: crows that hit; pre: the score the penalty
\* was taken from; threw: update threw.
NoEv(op) ==
    [op |-> op, was |-> state, from |-> "", dt |-> 0, ran |-> FALSE,
     expired |-> FALSE, nCol |-> 0, pts |-> 0, advanced |-> FALSE,
     won |-> FALSE, nPow |-> 0, nHit |-> 0, pre |-> 0, threw |-> FALSE]

\* The game's fields now.
Cur ==
    [state |-> state, level |-> level, requiredScore |-> requiredScore,
     goal |-> goal, maxTime |-> maxTime, timeLeft |-> timeLeft,
     spawnEvery |-> spawnEvery, powerUpSpawnEvery |-> powerUpSpawnEvery,
     crowSpawnEvery |-> crowSpawnEvery, accumSpawn |-> accumSpawn,
     accumPowerUpSpawn |-> accumPowerUpSpawn,
     accumCrowSpawn |-> accumCrowSpawn, score |-> score, player |-> player,
     crops |-> crops, obstacles |-> obstacles, powerUps |-> powerUps,
     crows |-> crows, ev |-> ev]

\* The game's fields after the handler: g.
Becomes(g) ==
    /\ state' = g.state
    /\ level' = g.level
    /\ requiredScore' = g.requiredScore
    /\ goal' = g.goal
    /\ maxTime' = g.maxTime
    /\ timeLeft' = g.timeLeft
    /\ spawnEvery' = g.spawnEvery
    /\ powerUpSpawnEvery' = g.powerUpSpawnEvery
    /\ crowSpawnEvery' = g.crowSpawnEvery
    /\ accumSpawn' = g.accumSpawn
    /\ accumPowerUpSpawn' = g.accumPowerUpSpawn
    /\ accumCrowSpawn' = g.accumCrowSpawn
    /\ score' = g.score
    /\ player' = g.player
    /\ crops' = g.crops
    /\ obstacles' = g.obstacles
    /\ powerUps' = g.powerUps
    /\ crows' = g.crows
    /\ ev' = g.ev

\* The indices of the entities of list that intersect rect (Array.filter
\* with Game.aabb; the dead flag is not looked at).
Hits(rect, list) == {i \in 1..Len(list) : aabb(rect, list[i])}

\* list with the entities at the indices in idx marked dead.
MarkDead(list, idx) ==
    [i \in 1..Len(list) |->
        IF i \in idx THEN [list[i] EXCEPT !.dead = TRUE] ELSE list[i]]

NotDead(e) == ~e.dead

\* list.filter(e => !e.dead)
Purge(list) == SelectSeq(list, NotDead)

\* n scarecrows on the cells cs[1..n] (the placement loops of
\* resetWithConfig and advanceLevel).
Scarecrows(cs) ==
    [i \in DOMAIN cs |-> Scarecrow(CellX(cs[i]), CellY(cs[i]))]

\* resetWithConfig(cfg) at clock t, for a cfg with a first level record,
\* with the scarecrows on the cells cs.  (lastTime is set by the caller.)
ResetWithConfig(g, cfg, cs) ==
    [g EXCEPT
        !.state = "MENU",
        !.level = 1,
        !.player = NewPlayer,
        !.crops = << >>,
        !.obstacles = Scarecrows(cs),
        !.powerUps = << >>,
        !.crows = << >>,
        !.score = 0,
        !.requiredScore = cfg.levels[1].goal,
        !.goal = cfg.levels[1].goal,
        !.timeLeft = cfg.levels[1].timeLimit,
        !.maxTime = cfg.levels[1].timeLimit,
        !.spawnEvery = cfg.levels[1].spawnEvery,
        !.crowSpawnEvery = cfg.levels[1].crowSpawnEvery,
        !.powerUpSpawnEvery = cfg.levels[1].powerUpSpawnEvery,
        !.accumSpawn = 0,
        !.accumPowerUpSpawn = 0,
        !.accumCrowSpawn = 0]

\* The random scarecrow placements of a level record.
Placements(lev) == [1..lev.numScarecrows -> ScarecrowCells]

\* Mutant of TogglePauseState: the second branch taken in every state
\* that is not PLAYING.
TogglePauseAlways(s) == IF s = "PLAYING" THEN "PAUSED" ELSE "PLAYING"

\* togglePause: the state after it.
TogglePauseState(s) ==
    IF s = "PLAYING" THEN "PAUSED"
    ELSE IF s = "PAUSED" THEN "PLAYING"
    ELSE s

\* The highest level: advanceLevel returns at once from it.
MaxLevel == 3

\* Mutant of AdvanceLevelTo: the goal of the new level in place of the sum.
AdvanceLevelReplacingGoal(g, lev, cs) ==
    [g EXCEPT
        !.level = g.level + 1,
        !.timeLeft = lev.timeLimit,
        !.maxTime = lev.timeLimit,
        !.crops = << >>,
        !.powerUps = << >>,
        !.crows = << >>,
        !.accumSpawn = 0,
        !.accumPowerUpSpawn = 0,
        !.accumCrowSpawn = 0,
        !.spawnEvery = lev.spawnEvery,
        !.crowSpawnEvery = lev.crowSpawnEvery,
        !.powerUpSpawnEvery = lev.powerUpSpawnEvery,
        !.requiredScore = lev.goal,
        !.goal = lev.goal,
        !.obstacles = Scarecrows(cs),
        !.ev.advanced = TRUE]

\* Mutant of AdvanceLevelTo: the level not incremented.
AdvanceLevelToStaying(g, lev, cs) ==
    [g EXCEPT
        !.timeLeft = lev.timeLimit,
        !.maxTime = lev.timeLimit,
        !.crops = << >>,
        !.powerUps = << >>,
        !.crows = << >>,
        !.accumSpawn = 0,
        !.accumPowerUpSpawn = 0,
        !.accumCrowSpawn = 0,
        !.spawnEvery = lev.spawnEvery,
        !.crowSpawnEvery = lev.crowSpawnEvery,
        !.powerUpSpawnEvery = lev.powerUpSpawnEvery,
        !.requiredScore = g.requiredScore + lev.goal,
        !.goal = g.requiredScore + lev.goal,
        !.obstacles = Scarecrows(cs),
        !.ev.advanced = TRUE]

\* advanceLevel, when config.levels[level] exists: the fields after it, with
\* the new scarecrows on the cells cs.
AdvanceLevelTo(g, lev, cs) ==
    [g EXCEPT
        !.level = g.level + 1,
        !.timeLeft = lev.timeLimit,
        !.maxTime = lev.timeLimit,
        !.crops = << >>,
        !.powerUps = << >>,
        !.crows = << >>,
        !.accumSpawn = 0,
        !.accumPowerUpSpawn = 0,
        !.accumCrowSpawn = 0,
        !.spawnEvery = lev.spawnEvery,
        !.crowSpawnEvery = lev.crowSpawnEvery,
        !.powerUpSpawnEvery = lev.powerUpSpawnEvery,
        !.requiredScore = g.requiredScore + lev.goal,
        !.goal = g.requiredScore + lev.goal,
        !.obstacles = Scarecrows(cs),
        !.ev.advanced = TRUE]

\* advanceLevel: every outcome.  At the highest level nothing happens.  When
\* config.levels has no record for the new level, reading its timeLimit
\* throws a TypeError after level++ and nothing else is done.
AdvanceLevel(g) ==
    IF g.level >= MaxLevel THEN {g}
    ELSE IF g.level + 1 > Len(config.levels)
         THEN {[g EXCEPT !.level = g.level + 1, !.ev.threw = TRUE]}
         ELSE {AdvanceLevelTo(g, config.levels[g.level + 1], cs) :
                  cs \in Placements(config.levels[g.level + 1])}

-----------------------------------------------------------------------------
(* Game.update(dt), phase by phase.  t is performance.now() during the     *)
(* update.                                                                 *)

\* Mutant of TickDt: the cap left out.
TickDtUncapped(ts, last) == ts - last

\* Game.tick: dt = Math.min((ts - lastTime) / 1000, 0.033), in ms.
DtCap == 33
TickDt(ts, last) == Min(ts - last, DtCap)

\* Mutant of Countdown: the clamp left out.
CountdownUnclamped(tl, dt, mx) == tl - dt

\* The countdown: Game.clamp(timeLeft - dt, 0, maxTime).
Countdown(tl, dt, mx) == clamp(tl - dt, 0, mx)

\* Mutant of TimeUp: the comparison made strict.
TimeUpStrict(tl) == tl < 0

\* if (this.timeLeft <= 0): the time is up.
TimeUp(tl) == tl <= 0

\* Mutant of GameOver: the state left as it is.
GameOverInPlace(g, tl) ==
    [g EXCEPT !.timeLeft = tl, !.ev.expired = TRUE]

\* Time up: GAME_OVER and return.
GameOver(g, tl) ==
    [g EXCEPT !.timeLeft = tl, !.state = "GAME_OVER", !.ev.expired = TRUE]

\* 1 when the key is held, 0 otherwise (a boolean in JS arithmetic).
Held(k) == IF k \in keys THEN 1 ELSE 0

\* The candidate rectangle is blocked: it intersects some scarecrow.
Blocked(cand, obs) == \E i \in 1..Len(obs) : aabb(cand, obs[i])

\* Mutant of FarmerUpdate: a blocked move slides along the axis that is
\* free.
FarmerUpdateSliding(p, obs, dt, t) ==
    LET vx == (Held("ArrowRight") - Held("ArrowLeft")) * p.speed
        vy == (Held("ArrowDown") - Held("ArrowUp")) * p.speed
        sp == IF t > p.speedBoostEnd THEN p.baseSpeed ELSE p.speed
        q == [p EXCEPT !.speed = sp]
        nx == clamp(p.x + vx * dt, 0, Px(WIDTH) - p.w)
        ny == clamp(p.y + vy * dt, 0, Px(HEIGHT) - p.h)
    IN  IF ~Blocked([q EXCEPT !.x = nx, !.y = ny], obs)
        THEN [q EXCEPT !.x = nx, !.y = ny]
        ELSE IF ~Blocked([q EXCEPT !.x = nx], obs) THEN [q EXCEPT !.x = nx]
        ELSE IF ~Blocked([q EXCEPT !.y = ny], obs) THEN [q EXCEPT !.y = ny]
        ELSE q

\* Farmer.handleInput(input) then Farmer.update(dt, game): the velocity is
\* taken from the speed before the boost check.
FarmerUpdate(p, obs, dt, t) ==
    LET vx == (Held("ArrowRight") - Held("ArrowLeft")) * p.speed
        vy == (Held("ArrowDown") - Held("ArrowUp")) * p.speed
        sp == IF t > p.speedBoostEnd THEN p.baseSpeed ELSE p.speed
        cand == [p EXCEPT !.speed = sp,
                          !.x = clamp(p.x + vx * dt, 0, Px(WIDTH) - p.w),
                          !.y = clamp(p.y + vy * dt, 0, Px(HEIGHT) - p.h)]
    IN  IF Blocked(cand, obs)
        THEN [cand EXCEPT !.x = p.x, !.y = p.y]
        ELSE cand

\* Mutant of SpawnCount: an if in place of the while.
SpawnCountOnce(acc, every) == IF acc >= every THEN 1 ELSE 0

\* The spawn loop, while (acc >= every) { acc -= every; spawn(); }:
\* how many times it spawns and what it leaves in the accumulator.
RECURSIVE SpawnCount(_, _)
SpawnCount(acc, every) ==
    IF acc >= every THEN 1 + SpawnCount(acc - every, every) ELSE 0

RECURSIVE SpawnRest(_, _)
SpawnRest(acc, every) ==
    IF acc >= every THEN SpawnRest(acc - every, every) ELSE acc

\* Mutant of ApplySpeedBoost: the boost applied to the speed in force and
\* the duration added to the expiry in force.
ApplySpeedBoostStacking(p, duration, t) ==
    [p EXCEPT !.speed = (p.speed * 3) \div 2,
              !.speedBoostEnd = Max(p.speedBoostEnd, t) + duration]

\* Farmer.applySpeedBoost(duration) at clock t (duration in ms).
ApplySpeedBoost(p, duration, t) ==
    [p EXCEPT !.speed = (p.baseSpeed * 3) \div 2,
              !.speedBoostEnd = t + duration]

\* The boost of a collected power-up: 5 seconds.
BoostDuration == 5000

\* The player and the three spawn loops; cs, ps and ks are the random draws
\* of spawnCrop, spawnPowerUp and spawnCrow.
MoveAndSpawn(g, dt, t, cs, ps, ks) ==
    [g EXCEPT
        !.player = FarmerUpdate(g.player, g.obstacles, dt, t),
        !.accumSpawn = SpawnRest(g.accumSpawn + dt, g.spawnEvery),
        !.crops = g.crops \o
            [i \in DOMAIN cs |-> Crop(CellX(cs[i][1]), CellY(cs[i][1]), cs[i][2])],
        !.accumPowerUpSpawn =
            SpawnRest(g.accumPowerUpSpawn + dt, g.powerUpSpawnEvery),
        !.powerUps = g.powerUps \o
            [i \in DOMAIN ps |-> PowerUp(CellX(ps[i]), CellY(ps[i]))],
        !.accumCrowSpawn = SpawnRest(g.accumCrowSpawn + dt, g.crowSpawnEvery),
        !.crows = g.crows \o
            [i \in DOMAIN ks |-> Crow(CellX(ks[i][1]), CellY(ks[i][1]), ks[i][2])]]

\* The sum of the points of the crops of list at the indices in idx.
RECURSIVE SumPoints(_, _)
SumPoints(list, idx) ==
    IF idx = {} THEN 0
    ELSE LET i == CHOOSE j \in idx : TRUE
         IN  list[i].points + SumPoints(list, idx \ {i})

\* if (this.score >= this.goal): the goal of the run so far is reached.
GoalReached(sc, gl) == sc >= gl

\* Mutant of HasNextLevel: the last level included.
HasNextLevelInclusive(lv) == lv <= 3

\* if (this.level < 3): there is a next level.
HasNextLevel(lv) == lv < 3

\* Collect crops: mark, add the points, and advance or win when the score
\* reaches the goal.  Every outcome (advanceLevel draws the scarecrows).
CollectCrops(g) ==
    LET idx == Hits(g.player, g.crops) IN
    IF idx = {} THEN {g}
    ELSE LET g1 == [g EXCEPT !.crops = MarkDead(g.crops, idx),
                             !.score = g.score + SumPoints(g.crops, idx),
                             !.ev.nCol = Cardinality(idx),
                             !.ev.pts = SumPoints(g.crops, idx)]
         IN  IF GoalReached(g1.score, g1.goal)
             THEN IF HasNextLevel(g1.level)
                  THEN AdvanceLevel(g1)
                  ELSE {[g1 EXCEPT !.state = "WIN", !.ev.won = TRUE]}
             ELSE {g1}

\* this.crops = this.crops.filter(c => !c.dead)
PurgeCrops(g) == [g EXCEPT !.crops = Purge(g.crops)]

\* applySpeedBoost(5) called n times in a row, once per power-up collected.
RECURSIVE BoostTimes(_, _, _)
BoostTimes(p, n, t) ==
    IF n = 0 THEN p
    ELSE BoostTimes(ApplySpeedBoost(p, BoostDuration, t), n - 1, t)

\* Collect power-ups: each one collected applies the 5 s boost.
CollectPowerUps(g, t) ==
    LET idx == Hits(g.player, g.powerUps) IN
    IF idx = {} THEN g
    ELSE [g EXCEPT !.player = BoostTimes(g.player, Cardinality(idx), t),
                   !.powerUps = Purge(MarkDead(g.powerUps, idx)),
                   !.ev.nPow = Cardinality(idx)]

\* A random change of direction, angle += (Math.random() - 0.5) * Math.PI:
\* the quarter turn angle - PI/2.
QuarterTurn(a) == <<a[2], -a[1]>>

\* Crow.update(dt): move along the heading, turn at random (turn = TRUE),
\* bounce off the walls.
CrowUpdate(c, dt, turn) ==
    LET x1 == c.x + (c.angle[1] * c.maxSpeed * dt) \div 5
        y1 == c.y + (c.angle[2] * c.maxSpeed * dt) \div 5
        a1 == IF turn THEN QuarterTurn(c.angle) ELSE c.angle
        a2 == IF x1 <= 0 \/ x1 >= Px(WIDTH) - c.w THEN <<-a1[1], a1[2]>> ELSE a1
        a3 == IF y1 <= 0 \/ y1 >= Px(HEIGHT) - c.h THEN <<a2[1], -a2[2]>> ELSE a2
    IN  [c EXCEPT !.x = x1, !.y = y1, !.angle = a3]

\* Mutant of Penalty: the floor at 0 left out.
PenaltyUnfloored(sc, n) == sc - 2 * n

\* Math.max(0, score - 2 * hitCrows.length)
Penalty(sc, n) == Max(0, sc - 2 * n)

\* Update the crows (turns[i]: crow i turns at random) and take the
\* penalty for those that hit the player.
CrowsAndPenalty(g, dt, turns) ==
    LET moved == [i \in 1..Len(g.crows) |-> CrowUpdate(g.crows[i], dt, turns[i])]
        idx == Hits(g.player, moved)
    IN  IF idx = {} THEN [g EXCEPT !.crows = Purge(moved)]
        ELSE [g EXCEPT !.score = Penalty(g.score, Cardinality(idx)),
                       !.crows = Purge(MarkDead(moved, idx)),
                       !.ev.nHit = Cardinality(idx),
                       !.ev.pre = g.score]

\* The update from the collection on, for the fields g after the spawns.
\* A throw in advanceLevel ends the update there.
CollectAll(g, dt, t) ==
    UNION { IF g1.ev.threw THEN {g1}
            ELSE LET g2 == CollectPowerUps(PurgeCrops(g1), t)
                 IN  {CrowsAndPenalty(g2, dt, turns) :
                         turns \in [1..Len(g2.crows) -> BOOLEAN]}
          : g1 \in CollectCrops(g) }

\* Mutants of Runs: update returns only when the run is over, or only
\* when it is paused.
RunsUnlessOver(s) == s \notin {"GAME_OVER", "WIN"}
RunsUnlessPaused(s) == s # "PAUSED"

\* if (this.state !== Game.State.PLAYING) return;
Runs(s) == s = "PLAYING"

\* Game.update(dt) at clock t: every outcome, from the fields g.
Update(g, dt, t) ==
    IF ~Runs(g.state) THEN {g}
    ELSE LET tl == Countdown(g.timeLeft, dt, g.maxTime)
             g0 == [g EXCEPT !.timeLeft = tl, !.ev.ran = TRUE]
         IN  IF TimeUp(tl) THEN {GameOver(g0, tl)}
             ELSE UNION { CollectAll(MoveAndSpawn(g0, dt, t, cs, ps, ks), dt, t) :
                    cs \in [1..SpawnCount(g.accumSpawn + dt, g.spawnEvery)
                              -> CropDraws],
                    ps \in [1..SpawnCount(g.accumPowerUpSpawn + dt,
                                          g.powerUpSpawnEvery) -> PowerUpCells],
                    ks \in [1..SpawnCount(g.accumCrowSpawn + dt, g.crowSpawnEvery)
                              -> CrowCells \X Headings] }

-----------------------------------------------------------------------------
(* The state after the constructor *)

\* Game.State
States == {"MENU", "PLAYING", "PAUSED", "GAME_OVER", "WIN"}

\* The number of configuration requests in flight.
InFlight ==
    fetching["MENU"] + fetching["PLAYING"] + fetching["PAUSED"]
        + fetching["GAME_OVER"] + fetching["WIN"]

Init ==
    /\ state = "MENU"
    /\ level = 1
    /\ config = NoConfig
    /\ requiredScore = 0
    /\ goal = 0
    /\ maxTime = 0
    /\ timeLeft = 0
    /\ spawnEvery = 0
    /\ powerUpSpawnEvery = 0
    /\ crowSpawnEvery = 0
    /\ accumSpawn = 0
    /\ accumPowerUpSpawn = 0
    /\ accumCrowSpawn = 0
    /\ score = 0
    /\ lastTime = 0
    /\ player = NewPlayer
    /\ crops = << >>
    /\ obstacles = << >>
    /\ powerUps = << >>
    /\ crows = << >>
    /\ keys = {}
    /\ now = 0
    /\ fetching = [s \in States |-> 0]
    /\ rafQueue = 0
    /\ rafRun = 0
    /\ ev = NoEv("init")

-----------------------------------------------------------------------------
(* The handlers.  Events are delivered between frames (rafRun = 0): the    *)
(* callbacks of one frame run back to back.                                *)

\* Mutant of StartResumes: no look at PAUSED, start always loads.
StartResumesNever(s) == FALSE

\* Game.start resumes at once when PAUSED.
StartResumes(s) == s = "PAUSED"

\* Game.start(): resume, or request config.json.
StartBody(op) ==
    IF StartResumes(state)
    THEN /\ Becomes([Cur EXCEPT !.state = "PLAYING", !.ev = NoEv(op)])
         /\ UNCHANGED <<config, lastTime, keys, now, fetching, rafQueue, rafRun>>
    ELSE /\ InFlight < MaxFetch
         /\ fetching' = [fetching EXCEPT ![state] = @ + 1]
         /\ Becomes([Cur EXCEPT !.ev = NoEv(op)])
         /\ UNCHANGED <<config, lastTime, keys, now, rafQueue, rafRun>>

\* A click on the Start button.
Start ==
    /\ rafRun = 0
    /\ StartBody("start")

\* The run started when a configuration request settles with cfg, loaded
\* or fallback: resetWithConfig(cfg), PLAYING, requestAnimationFrame(tick).
Begin(cfg, op) ==
    /\ rafRun = 0
    /\ rafQueue < MaxChains
    /\ \E s \in States :
          /\ fetching[s] > 0
          /\ fetching' = [fetching EXCEPT ![s] = @ - 1]
          /\ \E cs \in Placements(cfg.levels[1]) :
                Becomes([ResetWithConfig(Cur, cfg, cs) EXCEPT
                            !.state = "PLAYING",
                            !.ev = [NoEv(op) EXCEPT !.from = s]])
    /\ config' = cfg
    /\ lastTime' = now
    /\ rafQueue' = rafQueue + 1
    /\ UNCHANGED <<keys, now, rafRun>>

\* The fetch resolves with a config that has a first level record.
LoadOk ==
    \E cfg \in LoadedConfigs :
        /\ Usable(cfg)
        /\ Begin(cfg, "loadOk")

\* The catch handler runs with the defaults: the fetch rejected or the
\* response was not OK (the first then handler throws), or resetWithConfig
\* threw on the loaded config in the second then handler.  What the second
\* then handler wrote before the throw is overwritten by the catch handler.
LoadFail ==
    \/ Begin(DefaultConfig, "loadFail")
    \/ \E cfg \in UnusableConfigs :
          /\ ~Usable(cfg)
          /\ Begin(DefaultConfig, "loadFail")

\* Game.reset(): back to the menu with the loaded config, or start().
Reset ==
    /\ rafRun = 0
    /\ IF config.loaded
       THEN /\ \E cs \in Placements(config.levels[1]) :
                  Becomes([ResetWithConfig(Cur, config, cs) EXCEPT
                              !.ev = NoEv("reset")])
            /\ lastTime' = now
            /\ UNCHANGED <<config, keys, now, fetching, rafQueue, rafRun>>
       ELSE StartBody("reset")

\* Game.togglePause()
TogglePause(g) == [g EXCEPT !.state = TogglePauseState(g.state)]

\* Input.onKeyDown(e): the pause key toggles, every key is recorded.
KeyDown(k) ==
    /\ rafRun = 0
    /\ keys' = keys \cup {k}
    /\ IF k = "p"
       THEN Becomes([TogglePause(Cur) EXCEPT !.ev = NoEv("togglePause")])
       ELSE Becomes([Cur EXCEPT !.ev = NoEv("keyDown")])
    /\ UNCHANGED <<config, lastTime, now, fetching, rafQueue, rafRun>>

\* Input.onKeyUp(e)
KeyUp(k) ==
    /\ rafRun = 0
    /\ k \in keys
    /\ keys' = keys \ {k}
    /\ Becomes([Cur EXCEPT !.ev = NoEv("keyUp")])
    /\ UNCHANGED <<config, lastTime, now, fetching, rafQueue, rafRun>>

\* Game.tick(ts): dt, lastTime, update(dt), render, and - unless update
\* threw - requestAnimationFrame(tick).  resched is the number of callbacks
\* requested for the next frame when the tick does reschedule itself.
Tick(ts, resched, kept) ==
    LET dt == TickDt(ts, lastTime) IN
    /\ lastTime' = ts
    /\ \E g \in Update([Cur EXCEPT !.ev = [NoEv("tick") EXCEPT !.dt = dt]], dt, ts) :
          /\ Becomes(g)
          /\ rafQueue' = IF g.ev.threw THEN kept ELSE resched
    /\ UNCHANGED <<config, keys, fetching>>

\* A new frame, d ms after the last: the first tick callback of the frame.
TickFrame ==
    \E d \in ElapsedSet :
        /\ rafRun = 0
        /\ rafQueue > 0
        /\ now + d <= MaxNow
        /\ now' = now + d
        /\ rafRun' = rafQueue - 1
        /\ Tick(now + d, 1, 0)

\* A further tick callback of the same frame (a second tick chain): the
\* same timestamp.
TickSame ==
    /\ rafRun > 0
    /\ rafRun' = rafRun - 1
    /\ now' = now
    /\ Tick(now, rafQueue + 1, rafQueue)

Next ==
    \/ Start
    \/ LoadOk
    \/ LoadFail
    \/ Reset
    \/ \E k \in Keys : KeyDown(k)
    \/ \E k \in Keys : KeyUp(k)
    \/ TickFrame
    \/ TickSame

Spec == Init /\ [][Next]_vars

-----------------------------------------------------------------------------
(* Game.update(dt) called on its own, with any dt (the cap on dt is        *)
(* Game.tick's), from a run at level 1 whose spawn intervals and           *)
(* accumulators are drawn.                                                 *)

\* The clock stops the exploration at MaxSpawnNow ms.
MaxSpawnNow == 3400
\* The dt of the calls (ms).
SpawnDts == {900, 2500}
\* The spawn intervals of the crops, power-ups and crows (ms).
CropIntervals == {800, 1000}
PowerUpIntervals == {800, 3000}
CrowIntervals == {1000, 3000}
\* What the accumulators hold at the start (ms, below every interval).
Accums == {0, 600}

\* A configuration whose level 1 has these spawn intervals and no scarecrow.
IntervalConfig(ic, ip, ik) ==
    [loaded |-> TRUE,
     levels |-> << LevelRecord(15, 60000, ic, ik, ip, 0),
                   LevelRecord(20, 55000, 600, 4000, 8000, 3),
                   LevelRecord(25, 50000, 400, 3000, 6000, 4) >>]

\* A run just begun with such a configuration, the accumulators drawn.
SpawnInit ==
    \E ic \in CropIntervals, ip \in PowerUpIntervals, ik \in CrowIntervals,
       ac \in Accums, ap \in Accums, ak \in Accums :
        /\ config = IntervalConfig(ic, ip, ik)
        /\ state = "PLAYING"
        /\ level = 1
        /\ requiredScore = 15 /\ goal = 15
        /\ maxTime = 60000 /\ timeLeft = 60000
        /\ spawnEvery = ic /\ powerUpSpawnEvery = ip /\ crowSpawnEvery = ik
        /\ accumSpawn = ac /\ accumPowerUpSpawn = ap /\ accumCrowSpawn = ak
        /\ score = 0
        /\ lastTime = 0
        /\ player = NewPlayer
        /\ crops = << >> /\ obstacles = << >> /\ powerUps = << >> /\ crows = << >>
        /\ keys = {}
        /\ now = 0
        /\ fetching = [s \in States |-> 0]
        /\ rafQueue = 0 /\ rafRun = 0
        /\ ev = NoEv("init")

\* Game.update(dt), dt ms after the last call, the clock up to limit.
UpdateCall(dt, limit) ==
    /\ now + dt <= limit
    /\ now' = now + dt
    /\ \E g \in Update([Cur EXCEPT !.ev = [NoEv("update") EXCEPT !.dt = dt]],
                        dt, now + dt) :
          Becomes(g)
    /\ UNCHANGED <<config, lastTime, keys, fetching, rafQueue, rafRun>>

SpawnNext == \E dt \in SpawnDts : UpdateCall(dt, MaxSpawnNow)

SpawnSpec == SpawnInit /\ [][SpawnNext]_vars

-----------------------------------------------------------------------------
(* Game.update(dt) on a run under way with the default configuration: the  *)
(* player somewhere in the world, with or without a boost, arrow keys      *)
(* held, two scarecrows, and power-ups and crops lying by the player's     *)
(* start position.                                                         *)

\* The clock stops the exploration at MaxMoveNow ms.
MaxMoveNow == 100
\* The dt of the calls (ms).
MoveDts == {33, 50}
\* Where the player is (px): the start position; by the upper left corner
\* of the scarecrow at (480, 450), touching it at the corner; up and left
\* of that corner; by the lower right corner of the world; by the upper
\* left corner of the world and of the scarecrow at (30, 30).
PlayerPositions ==
    {<<433, 460>>, <<446, 416>>, <<440, 410>>, <<860, 500>>, <<5, 3>>}
\* The arrow keys held.
HeldKeys ==
    {{}, {"ArrowRight"}, {"ArrowDown"}, {"ArrowRight", "ArrowDown"},
     {"ArrowLeft", "ArrowUp"}}
\* The expiry of the player's boost (ms): 0 is no boost.
BoostEnds == {0, 40, 5000}
\* The cell next to OnPlayer, under the player's start position as well.
NextToPlayer == <<14, 14>>
\* The cells of the scarecrows.
TopLeft == <<0, 0>>
\* The cells of the power-ups lying about.
PowerUpLayouts == {<< >>, <<OnPlayer>>, <<OnPlayer, NextToPlayer>>}

\* The crops lying about, as spawnCrop's draws <<cell, type>>: none, or one
\* of each type.
CropLayouts ==
    {<< >>, << <<OnPlayer, "wheat">>, <<NextToPlayer, "pumpkin">>,
               <<RightOfPlayer, "golden_apple">> >>}

\* A player at <<x, y>> px whose boost ends at e (0: not boosted).
PlayerAt(pos, e) ==
    IF e = 0 THEN Farmer(Px(pos[1]), Px(pos[2]))
    ELSE [Farmer(Px(pos[1]), Px(pos[2])) EXCEPT !.speed = (@ * 3) \div 2,
                                               !.speedBoostEnd = e]

MoveInit ==
    \E pos \in PlayerPositions, e \in BoostEnds, ks \in HeldKeys,
       pl \in PowerUpLayouts, cl \in CropLayouts :
        /\ config = DefaultConfig
        /\ state = "PLAYING"
        /\ level = 1
        /\ requiredScore = 15 /\ goal = 15
        /\ maxTime = 60000 /\ timeLeft = 60000
        /\ spawnEvery = 800 /\ powerUpSpawnEvery = 10000
        /\ crowSpawnEvery = 5000
        /\ accumSpawn = 0 /\ accumPowerUpSpawn = 0 /\ accumCrowSpawn = 0
        /\ score = 0
        /\ lastTime = 0
        /\ player = PlayerAt(pos, e)
        /\ crops = [i \in DOMAIN cl |->
                       Crop(CellX(cl[i][1]), CellY(cl[i][1]), cl[i][2])]
        /\ obstacles = Scarecrows(<<RightOfPlayer, TopLeft>>)
        /\ powerUps = [i \in DOMAIN pl |-> PowerUp(CellX(pl[i]), CellY(pl[i]))]
        /\ crows = << >>
        /\ keys = ks
        /\ now = 0
        /\ fetching = [s \in States |-> 0]
        /\ rafQueue = 0 /\ rafRun = 0
        /\ ev = NoEv("init")

MoveNext == \E dt \in MoveDts : UpdateCall(dt, MaxMoveNow)

MoveSpec == MoveInit /\ [][MoveNext]_vars

-----------------------------------------------------------------------------
(* The frame loop under frames of any length: the start button, a loaded   *)
(* configuration, the pause key and frames that come 20 to 50 ms after the *)
(* last (a second tick callback of the same frame sees 0 ms elapsed).      *)

\* The clock stops the exploration at MaxFrameNow ms.
MaxFrameNow == 100
\* Time elapsed between two frames (ms): below the cap, the cap, above.
FrameElapsed == {20, 33, 50}

\* A new frame, d ms after the last: the first tick callback of the frame.
TickAfter(d) ==
    /\ rafRun = 0
    /\ rafQueue > 0
    /\ now + d <= MaxFrameNow
    /\ now' = now + d
    /\ rafRun' = rafQueue - 1
    /\ Tick(now + d, 1, 0)

FrameNext ==
    \/ Start
    \/ LoadOk
    \/ KeyDown("p")
    \/ \E d \in FrameElapsed : TickAfter(d)
    \/ TickSame

FrameSpec == Init /\ [][FrameNext]_vars

-----------------------------------------------------------------------------
(* Game.update(dt) on a run under way with the default configuration and   *)
(* one crow in flight near an edge of the world or at a spawn cell, away   *)
(* from the player, under steps of 20 and 33 ms.                           *)

\* The clock stops the exploration at MaxCrowNow ms.
MaxCrowNow == 100
\* The dt of the calls (ms).
CrowDts == {20, 33}
\* Where the crow is (px): by the left edge, by the right edge (x = 880 is
\* WIDTH - w), by the top edge, and on the first spawn cell.
CrowPositions == {<<1, 200>>, <<878, 200>>, <<400, 1>>, <<30, 30>>}
\* The crow's heading, as <<5 cos, 5 sin>>: left, up and left, down and
\* right.
CrowHeadings == {<<-5, 0>>, <<-3, -4>>, <<4, 3>>}

CrowInit ==
    \E pos \in CrowPositions, a \in CrowHeadings :
        /\ config = DefaultConfig
        /\ state = "PLAYING"
        /\ level = 1
        /\ requiredScore = 15 /\ goal = 15
        /\ maxTime = 60000 /\ timeLeft = 60000
        /\ spawnEvery = 800 /\ powerUpSpawnEvery = 10000
        /\ crowSpawnEvery = 5000
        /\ accumSpawn = 0 /\ accumPowerUpSpawn = 0 /\ accumCrowSpawn = 0
        /\ score = 0
        /\ lastTime = 0
        /\ player = NewPlayer
        /\ crops = << >>
        /\ obstacles = Scarecrows(<<RightOfPlayer, TopLeft>>)
        /\ powerUps = << >>
        /\ crows = << Crow(Px(pos[1]), Px(pos[2]), a) >>
        /\ keys = {}
        /\ now = 0
        /\ fetching = [s \in States |-> 0]
        /\ rafQueue = 0 /\ rafRun = 0
        /\ ev = NoEv("init")

CrowNext == \E dt \in CrowDts : UpdateCall(dt, MaxCrowNow)

CrowSpec == CrowInit /\ [][CrowNext]_vars

-----------------------------------------------------------------------------
(* A run under way with the built-in defaults, driven by its one tick      *)
(* chain alone: no start, reset or key.  The run is at level 1, 2 or 3,    *)
(* short of the level's cumulative goal, a crop due at the next update,    *)
(* with the level's whole time or two frames of it left.                   *)

\* The clock stops the exploration at MaxRunNow ms.
MaxRunNow == 120
\* Time elapsed between two frames (ms): below and above the cap.
RunElapsed == {20, 40}
\* What the score is short of the cumulative goal.
RunShort == {1, 6}
\* What is left of the level's time (ms), besides all of it.
RunTimeLeft == 66

\* The cumulative goal of level n under the defaults.
RECURSIVE DefaultGoal(_)
DefaultGoal(n) ==
    IF n = 1 THEN DefaultConfig.levels[1].goal
    ELSE DefaultGoal(n - 1) + DefaultConfig.levels[n].goal

RunInit ==
    \E lv \in 1..MaxLevel, short \in RunShort :
    \E tl \in {RunTimeLeft, DefaultConfig.levels[lv].timeLimit},
       cs \in Placements(DefaultConfig.levels[lv]) :
        /\ config = DefaultConfig
        /\ state = "PLAYING"
        /\ level = lv
        /\ requiredScore = DefaultGoal(lv) /\ goal = DefaultGoal(lv)
        /\ maxTime = DefaultConfig.levels[lv].timeLimit
        /\ timeLeft = tl
        /\ spawnEvery = DefaultConfig.levels[lv].spawnEvery
        /\ powerUpSpawnEvery = DefaultConfig.levels[lv].powerUpSpawnEvery
        /\ crowSpawnEvery = DefaultConfig.levels[lv].crowSpawnEvery
        /\ accumSpawn = DefaultConfig.levels[lv].spawnEvery - 20
        /\ accumPowerUpSpawn = 0 /\ accumCrowSpawn = 0
        /\ score = DefaultGoal(lv) - short
        /\ lastTime = 0
        /\ player = NewPlayer
        /\ crops = << >>
        /\ obstacles = Scarecrows(cs)
        /\ powerUps = << >>
        /\ crows = << >>
        /\ keys = {}
        /\ now = 0
        /\ fetching = [s \in States |-> 0]
        /\ rafQueue = 1 /\ rafRun = 0
        /\ ev = NoEv("init")

\* A new frame, d ms after the last: the tick callback of the chain.
RunTick(d) ==
    /\ rafRun = 0
    /\ rafQueue > 0
    /\ now + d <= MaxRunNow
    /\ now' = now + d
    /\ rafRun' = rafQueue - 1
    /\ Tick(now + d, 1, 0)

RunNext == \E d \in RunElapsed : RunTick(d)

RunSpec == RunInit /\ [][RunNext]_vars

-----------------------------------------------------------------------------
(* Properties.  A step is the step of the handler ev'.op; the dt of a tick *)
(* step is min(ts - lastTime, 33 ms) with ts the clock of the frame.       *)

\* The dt of a tick step, from the clock and lastTime.
StepDt == IF now' - lastTime < 33 THEN now' - lastTime ELSE 33

\* The fields of the run besides state and timeLeft.
runData == <<score, level, requiredScore, goal, maxTime, spawnEvery,
             powerUpSpawnEvery, crowSpawnEvery, accumSpawn, accumPowerUpSpawn,
             accumCrowSpawn, player, crops, obstacles, powerUps, crows>>

\* C1: an update step in PLAYING with timeLeft - dt <= 0 ends in GAME_OVER
\* with timeLeft = 0, whatever the score, and does nothing else: no player
\* movement, no spawn, no scoring, no level change.
C1_TimeUpEndsTheRun ==
    [][ (ev'.op = "tick" /\ state = "PLAYING" /\ timeLeft - StepDt <= 0)
        => (/\ state' = "GAME_OVER"
            /\ timeLeft' = 0
            /\ UNCHANGED runData) ]_vars

\* C1's case: the time ran out on a score that had reached the goal.
C1_Witness ==
    /\ ev.op = "tick"
    /\ ev.was = "PLAYING"
    /\ state = "GAME_OVER"
    /\ timeLeft = 0
    /\ score > 0
    /\ score >= requiredScore

\* The handlers that run resetWithConfig.
ResetOps == {"loadOk", "loadFail", "reset"}

\* C2: the level is always in 1..3, no step other than a reset lowers it,
\* and a step at level 3 whose collected points bring the score to the
\* cumulative goal ends in WIN at level 3 with the goal unchanged.
C2_LevelMonotonicBounded ==
    /\ [](level \in 1..3)
    /\ [][ ev'.op \notin ResetOps => level' >= level ]_vars
    /\ [][ (ev'.op = "tick" /\ level = 3 /\ ev'.nCol > 0
              /\ score + ev'.pts >= requiredScore)
           => (state' = "WIN" /\ level' = 3 /\ requiredScore' = requiredScore
               /\ goal' = goal) ]_vars

\* C2's case: a run won at level 3.
C2_Witness ==
    /\ ev.op = "tick"
    /\ ev.won
    /\ state = "WIN"
    /\ level = 3
    /\ score >= requiredScore

\* C3: an update step at level L < 3 whose collected points bring the score
\* to the cumulative goal ends at level L+1 with that level's goal added,
\* its time limit, zero accumulators, empty crop, power-up and crow lists,
\* numScarecrows(L+1) scarecrows, in PLAYING, the score kept.  (What the
\* claim says of level L+1's record is stated where config has the record.)
C3_AdvanceSetsUpNextLevel ==
    [][ (ev'.op = "tick" /\ level < 3 /\ ev'.nCol > 0
           /\ score + ev'.pts >= requiredScore)
        => (/\ level' = level + 1
            /\ accumSpawn' = 0 /\ accumPowerUpSpawn' = 0 /\ accumCrowSpawn' = 0
            /\ crops' = << >> /\ powerUps' = << >> /\ crows' = << >>
            /\ state' = "PLAYING"
            /\ score' = score + ev'.pts
            /\ level + 1 <= Len(config.levels) =>
                 (/\ requiredScore' = requiredScore + config.levels[level + 1].goal
                  /\ timeLeft' = config.levels[level + 1].timeLimit
                  /\ Len(obstacles') = config.levels[level + 1].numScarecrows)) ]_vars

\* C4: a frame callback in PAUSED leaves the run as it is - score, level,
\* timeLeft, goal, accumulators, player, every list - and sets lastTime to
\* the frame's timestamp.
C4_PausedFramesChangeNothing ==
    [][ (ev'.op = "tick" /\ state = "PAUSED")
        => (/\ UNCHANGED <<state, timeLeft, runData>>
            /\ lastTime' = now') ]_vars

\* C4's case: a frame with elapsed time went by in a paused run under way.
C4_Witness ==
    /\ ev.op = "tick"
    /\ ev.dt > 0
    /\ ev.was = "PAUSED"
    /\ state = "PAUSED"
    /\ timeLeft < maxTime
    /\ Len(crops) > 0

\* The crows spawned by an update step with this dt.
CrowsSpawned == (accumCrowSpawn + StepDt) \div crowSpawnEvery

\* C5: the score is never negative, and an update step in which k >= 1
\* crows hit the player leaves score = max(0, pre - 2k), pre being the
\* score with the step's collected points, and removes exactly those k
\* crows.
C5_PenaltyFlooredAtZero ==
    /\ [](score >= 0)
    /\ [][ (ev'.op = "tick" /\ ev'.nHit > 0)
           => (/\ score' = (IF score + ev'.pts - 2 * ev'.nHit > 0
                            THEN score + ev'.pts - 2 * ev'.nHit ELSE 0)
               /\ Len(crows') = Len(crows) + CrowsSpawned - ev'.nHit
               /\ \A i \in 1..Len(crows') :
                     ~crows'[i].dead /\ ~aabb(player', crows'[i])) ]_vars

\* C5's case: two crows hit at score 3 and the score is floored at 0.
C5_Witness ==
    /\ ev.op = "tick"
    /\ ev.nHit = 2
    /\ ev.pre = 3
    /\ score = 0

\* The crops spawned by an update step with this dt.
CropsSpawned == (accumSpawn + StepDt) \div spawnEvery

\* C6: an update step removes from the crop list every crop that
\* intersects the player at the collision check and adds exactly the sum of
\* their points to the score (less the crow penalty of the same step);
\* crops that do not intersect stay in the list (a step that sets up the
\* next level empties the list, and is left out of the count).
C6_CollectedCropsRemoved ==
    [][ (ev'.op = "tick" /\ ev'.ran /\ ~ev'.expired)
        => (/\ score' = (IF score + ev'.pts - 2 * ev'.nHit > 0
                         THEN score + ev'.pts - 2 * ev'.nHit ELSE 0)
            /\ \A i \in 1..Len(crops') : ~crops'[i].dead
            /\ ~ev'.advanced =>
                 Len(crops') = Len(crops) + CropsSpawned - ev'.nCol) ]_vars

\* C7: a run begins (reset to level 1, PLAYING) only on a start signal
\* received in MENU, GAME_OVER or WIN, and a start signal received in
\* PLAYING does not reset the score, level, timeLeft or lists of the run
\* in progress.
C7_StartOnlyFromIdle ==
    [][ (ev'.op \in {"loadOk", "loadFail"})
        => (/\ ev'.from \in {"MENU", "GAME_OVER", "WIN"}
            /\ (ev'.from = "PLAYING" /\ state = "PLAYING")
                 => UNCHANGED <<score, level, timeLeft, crops, powerUps,
                                crows, obstacles>>) ]_vars

\* C8: a toggle-pause signal turns PLAYING into PAUSED and PAUSED into
\* PLAYING, leaves every other state as it is, changes nothing else of the
\* game, and a second toggle right after the first restores the state.
C8_TogglePause ==
    /\ [][ ev'.op = "togglePause"
           => (/\ state' = (IF state = "PLAYING" THEN "PAUSED"
                            ELSE IF state = "PAUSED" THEN "PLAYING"
                            ELSE state)
               /\ UNCHANGED <<timeLeft, runData, config, lastTime, now,
                              fetching, rafQueue, rafRun>>) ]_vars
    /\ [][ (ev.op = "togglePause" /\ ev'.op = "togglePause")
           => state' = ev.was ]_vars

\* C8's case: a run under way was paused and resumed by two toggles.
C8_Witness ==
    /\ ev.op = "togglePause"
    /\ ev.was = "PAUSED"
    /\ state = "PLAYING"
    /\ timeLeft < maxTime
    /\ "p" \in keys

\* C9: in GAME_OVER and WIN neither a frame callback nor a key (the pause
\* key included) changes the state, the score, the level, timeLeft or a
\* list, and the state is left only by a reset or by a run's beginning.
C9_TerminalStatesStay ==
    /\ [][ (state \in {"GAME_OVER", "WIN"}
              /\ ev'.op \in {"tick", "togglePause", "keyDown", "keyUp"})
           => UNCHANGED <<state, timeLeft, runData>> ]_vars
    /\ [][ (state \in {"GAME_OVER", "WIN"} /\ state' # state)
           => ev'.op \in ResetOps ]_vars

\* C9's case: a frame went by in a won run.
C9_Witness ==
    /\ ev.op = "tick"
    /\ ev.was = "WIN"
    /\ state = "WIN"

\* C10: every tick completes its update without a fatal error and requests
\* the next frame callback.
C10_TickAlwaysReschedules ==
    ev.op = "tick" => (~ev.threw /\ rafQueue >= 1)

\* The documented defaults of level i, times in ms.
DocumentedDefault(i) ==
    [goal |-> <<15, 20, 25>>[i],
     timeLimit |-> <<60000, 55000, 50000>>[i],
     spawnEvery |-> <<800, 600, 400>>[i],
     crowSpawnEvery |-> <<5000, 4000, 3000>>[i],
     powerUpSpawnEvery |-> <<10000, 8000, 6000>>[i],
     numScarecrows |-> <<2, 3, 4>>[i]]

\* C11: when the configuration load of a start signal fails, the run
\* begins all the same: PLAYING at level 1, score 0, with the three
\* documented default level records as the configuration, level 1's
\* values in force, and a frame callback requested.
C11_LoadFailureFallsBackToDefaults ==
    [][ ev'.op = "loadFail"
        => (/\ state' = "PLAYING"
            /\ level' = 1
            /\ score' = 0
            /\ Len(config'.levels) = 3
            /\ \A i \in 1..3 : config'.levels[i] = DocumentedDefault(i)
            /\ requiredScore' = 15 /\ goal' = 15
            /\ timeLeft' = 60000 /\ maxTime' = 60000
            /\ spawnEvery' = 800
            /\ crowSpawnEvery' = 5000
            /\ powerUpSpawnEvery' = 10000
            /\ Len(obstacles') = 2
            /\ rafQueue' = rafQueue + 1) ]_vars

\* C11's case: a start signal received after a lost run with a loaded
\* configuration, whose load failed.
C11_Witness ==
    /\ ev.op = "loadFail"
    /\ ev.from = "GAME_OVER"
    /\ state = "PLAYING"
    /\ level = 1
    /\ config = DefaultConfig

\* C12: while a configuration request of a start signal is in flight, no
\* update step gets past its state check (runs in PLAYING).
C12_NoUpdateWhileLoading ==
    (ev.op = "tick" /\ ev.ran) => InFlight = 0

C14_DtCapped ==
    [][ ev'.op = "tick"
        => (/\ now' - lastTime >= 33 => ev'.dt = 33
            /\ now' - lastTime < 33 => ev'.dt = now' - lastTime
            /\ ev'.dt <= 33
            /\ (ev'.ran /\ ~ev'.advanced)
                 => timeLeft' = (IF timeLeft - ev'.dt > 0
                                 THEN timeLeft - ev'.dt ELSE 0)
            /\ lastTime' = now') ]_vars

\* C14's case: a frame longer than the cap in a paused run, after a frame
\* shorter than the cap had taken its 20 ms off the time left.
C14_Witness ==
    /\ ev.op = "tick"
    /\ ev.dt = 33
    /\ ev.was = "PAUSED"
    /\ lastTime = now
    /\ now = 70
    /\ timeLeft = maxTime - 20

\* The rectangles of the world: the player and every entity.
Rects ==
    {player} \cup {crops[i] : i \in DOMAIN crops}
             \cup {obstacles[i] : i \in DOMAIN obstacles}
             \cup {powerUps[i] : i \in DOMAIN powerUps}
             \cup {crows[i] : i \in DOMAIN crows}

\* C15: aabb is symmetric, and rectangles that only touch along an edge or
\* at a corner do not intersect.
C15_AabbSymmetricStrict ==
    \A a \in Rects, b \in Rects :
        /\ aabb(a, b) = aabb(b, a)
        /\ (a.x + a.w = b.x \/ a.y + a.h = b.y)
             => (~aabb(a, b) /\ ~aabb(b, a))

\* C15's case: the player moved right up to the scarecrow's left edge, the
\* two touching along it.
C15_Witness ==
    /\ ev.op = "update"
    /\ "ArrowRight" \in keys
    /\ player.x + player.w = obstacles[1].x
    /\ player.y < obstacles[1].y + obstacles[1].h
    /\ player.y + player.h > obstacles[1].y
    /\ now = 50

\* The sum of the goals of the level records 1..n of the configuration (a
\* level without a record has no configured goal and adds nothing).
RECURSIVE GoalsUpTo(_)
GoalsUpTo(n) ==
    IF n = 0 THEN 0
    ELSE GoalsUpTo(n - 1)
           + (IF n <= Len(config.levels) THEN config.levels[n].goal ELSE 0)

\* C16: once a configuration is installed, requiredScore, and goal with it,
\* is the sum of the configured goals of levels 1 to the current level.
C16_GoalIsCumulative ==
    config.loaded => (requiredScore = GoalsUpTo(level) /\ goal = requiredScore)

\* C16's case: at level 3 of the three-level configuration the goal is
\* 3 + 5 + 1, not level 3's 1.
C16_Witness ==
    /\ config = ShortConfig
    /\ level = 3
    /\ ev.op = "tick"
    /\ ev.advanced
    /\ requiredScore = 9
    /\ goal = 9

\* C17: once a configuration is installed, timeLeft is between 0 and the
\* time limit of the current level, which maxTime holds.  (After a level
\* advance that found no record for the new level, that level has no time
\* limit and maxTime is the last one set.)
C17_TimeLeftWithinLimit ==
    config.loaded
      => (/\ 0 <= timeLeft
          /\ timeLeft <= maxTime
          /\ level <= Len(config.levels)
               => maxTime = config.levels[level].timeLimit)

\* C17's case: the time of level 2 ran down to 0, under a limit shorter
\* than level 1's.
C17_Witness ==
    /\ config = ShortConfig
    /\ level = 2
    /\ ev.op = "tick"
    /\ ev.expired
    /\ timeLeft = 0
    /\ maxTime = 40

\* C18: the player is always inside the world: 0 <= x <= WIDTH - w and
\* 0 <= y <= HEIGHT - h.
C18_PlayerInsideWorld ==
    /\ 0 <= player.x
    /\ player.x <= 900000 - player.w
    /\ 0 <= player.y
    /\ player.y <= 540000 - player.h

\* C18's case: a boosted player held against the lower right corner of the
\* world by the right and down keys.
C18_Witness ==
    /\ ev.op = "update"
    /\ keys = {"ArrowRight", "ArrowDown"}
    /\ player.speed > player.baseSpeed
    /\ player.x = 900000 - player.w
    /\ player.y = 540000 - player.h
    /\ now > 0

\* 1 when key k is held before the step, 0 otherwise.
Down(k) == IF k \in keys THEN 1 ELSE 0

\* The candidate position of the player in an update step with ev'.dt: the
\* old position plus velocity * dt, clamped per axis.
CandX ==
    LET v == player.x
               + (Down("ArrowRight") - Down("ArrowLeft")) * player.speed * ev'.dt
    IN  IF v < 0 THEN 0
        ELSE IF v > 900000 - player.w THEN 900000 - player.w ELSE v
CandY ==
    LET v == player.y
               + (Down("ArrowDown") - Down("ArrowUp")) * player.speed * ev'.dt
    IN  IF v < 0 THEN 0
        ELSE IF v > 540000 - player.h THEN 540000 - player.h ELSE v

\* The rectangle w x h at <<x, y>> overlaps a scarecrow.
Overlaps(x, y, w, h) ==
    \E i \in DOMAIN obstacles :
        /\ x < obstacles[i].x + obstacles[i].w
        /\ x + w > obstacles[i].x
        /\ y < obstacles[i].y + obstacles[i].h
        /\ y + h > obstacles[i].y

\* C19: in a player update, a candidate rectangle that intersects any
\* scarecrow leaves both x and y as they were, also when the move along
\* one axis alone would be free; otherwise the player is at the candidate
\* position.
C19_BlockedMoveRejectedWhole ==
    [][ (ev'.op = "update" /\ ev'.ran /\ ~ev'.expired)
        => IF Overlaps(CandX, CandY, player.w, player.h)
           THEN player'.x = player.x /\ player'.y = player.y
           ELSE player'.x = CandX /\ player'.y = CandY ]_vars

\* C19's case: the player up and left of the scarecrow's corner, right and
\* down held: the diagonal step is rejected though a step right alone or
\* down alone would be free, and the player is where it was.
C19_Witness ==
    /\ ev.op = "update"
    /\ ev.dt = 33
    /\ keys = {"ArrowRight", "ArrowDown"}
    /\ player.speed = 260
    /\ player.x = 440000
    /\ player.y = 410000
    /\ ~Overlaps(player.x + 8580, player.y, player.w, player.h)
    /\ ~Overlaps(player.x, player.y + 8580, player.w, player.h)
    /\ Overlaps(player.x + 8580, player.y + 8580, player.w, player.h)

\* C20: after an update step in which n >= 1 power-ups intersect the
\* player, the player's speed is 1.5 x the base speed and the boost ends
\* 5 s after the clock of the step, for every n and whether or not a boost
\* was in force, and the n power-ups are gone from the list.
C20_BoostDoesNotStack ==
    [][ (ev'.op = "update" /\ ev'.nPow >= 1)
        => (/\ 2 * player'.speed = 3 * player'.baseSpeed
            /\ player'.baseSpeed = player.baseSpeed
            /\ player'.speedBoostEnd = now' + 5000
            /\ Len(powerUps') = Len(powerUps) - ev'.nPow
            /\ \A i \in DOMAIN powerUps' :
                  ~powerUps'[i].dead /\ ~aabb(player', powerUps'[i])) ]_vars

\* C20's case: two power-ups picked up in one step; the player has the
\* boost of one.
C20_Witness ==
    /\ ev.op = "update"
    /\ ev.nPow = 2
    /\ now = 33
    /\ player.speed = 390
    /\ player.speedBoostEnd = 5033
    /\ powerUps = << >>

\* The point value bound to each type tag.
TagPoints == [wheat |-> 1, pumpkin |-> 3, golden_apple |-> 5]

\* C21: every crop carries one of the three type tags and the point value
\* of its tag - wheat 1, pumpkin 3, golden apple 5 - and the points an
\* update step collects are a sum of one such value per crop collected.
C21_PointsByTypeTag ==
    /\ \A i \in DOMAIN crops :
          /\ crops[i].type \in {"wheat", "pumpkin", "golden_apple"}
          /\ crops[i].points = TagPoints[crops[i].type]
    /\ \E a \in 0..ev.nCol, b \in 0..ev.nCol, c \in 0..ev.nCol :
          /\ a + b + c = ev.nCol
          /\ ev.pts = a + 3 * b + 5 * c

\* C21's case: a wheat and a pumpkin collected in one step for 1 + 3
\* points, the golden apple left lying with its 5 points.
C21_Witness ==
    /\ ev.op = "update"
    /\ ev.nCol = 2
    /\ ev.pts = 4
    /\ score = 4
    /\ Len(crops) = 1
    /\ crops[1].type = "golden_apple"
    /\ crops[1].points = 5

\* C22: the level/run transition check of an update step comes after the
\* whole collision pass: a step that advances the level or wins does so on
\* the score with the crow penalty of the same step taken, so that score is
\* at or above the goal the step began with.
C22_TransitionAfterCollisionPass ==
    [][ (ev'.op = "tick" /\ ev'.ran /\ (ev'.advanced \/ ev'.won))
        => score' >= requiredScore ]_vars

\* C23: whenever the state is WIN, the score is at or above the cumulative
\* goal and the level is 3.
C23_WinMeansGoalReached ==
    state = "WIN" => (score >= requiredScore /\ level = 3)

\* The level part of C23 on its own: a win is recorded at level 3 only.
C23_WinAtLevelThree ==
    state = "WIN" => level = 3

\* C24: after every update step that leaves the state PLAYING the score is
\* below the cumulative goal: a score at the goal makes the step advance the
\* level or win.
C24_GoalReachedAlwaysActs ==
    (ev.op = "tick" /\ ev.ran /\ state = "PLAYING") => score < requiredScore

\* C25: at any time at most one tick callback is pending (requested for the
\* next frame or still to run in the frame under way): there is one
\* self-rescheduling tick chain at most.
C25_SingleTickChain ==
    rafQueue + rafRun <= 1

\* C26: in every reachable state the player's rectangle intersects no
\* scarecrow.
C26_PlayerClearOfScarecrows ==
    \A i \in DOMAIN obstacles : ~aabb(player, obstacles[i])

\* The update part of C26 on its own: an update step that does not rebuild
\* the scarecrows does not move a player that is clear of them into one.
C26_UpdateKeepsClear ==
    [][ (ev'.op = "tick" /\ ~ev'.advanced /\ C26_PlayerClearOfScarecrows)
        => C26_PlayerClearOfScarecrows' ]_vars

\* What C27 says of the state a reset leaves, level 1's time limit and
\* scarecrow count being those of the configuration when there is one.
C27_ResetState ==
    ev.op = "reset"
      => (/\ state = "MENU"
          /\ score = 0
          /\ level = 1
          /\ crops = << >> /\ powerUps = << >> /\ crows = << >>
          /\ config.loaded
               => (/\ timeLeft = config.levels[1].timeLimit
                   /\ Len(obstacles) = config.levels[1].numScarecrows))

C28_StartInPausedOnlyResumes ==
    [][ (ev'.op = "start" /\ state = "PAUSED")
        => (/\ state' = "PLAYING"
            /\ UNCHANGED <<timeLeft, runData, config, lastTime, now,
                           fetching, rafQueue, rafRun>>) ]_vars

\* C28's case: a paused run under way, with points scored, resumed by the
\* start signal, no load in flight.
C28_Witness ==
    /\ ev.op = "start"
    /\ ev.was = "PAUSED"
    /\ state = "PLAYING"
    /\ timeLeft < maxTime
    /\ score > 0
    /\ InFlight = 0

\* C29: the pause key is edge-triggered: its key-down toggles the pause
\* state when the key was up, and a key-down that finds the key already held
\* (auto-repeat, no key-up in between) leaves the state as it is.
C29_PauseKeyEdgeTriggered ==
    /\ [][ (ev'.op = "togglePause" /\ "p" \notin keys)
           => state' = (IF state = "PLAYING" THEN "PAUSED"
                        ELSE IF state = "PAUSED" THEN "PLAYING"
                        ELSE state) ]_vars
    /\ [][ (ev'.op = "togglePause" /\ "p" \in keys)
           => state' = state ]_vars

\* The distance between two coordinates.
Dist(a, b) == IF a > b THEN a - b ELSE b - a

\* C30: in an update step whose clock is past the boost expiry the player
\* moves at the base speed: its displacement on each axis is at most
\* baseSpeed x dt.
C30_NoBoostAfterExpiry ==
    [][ (ev'.op = "update" /\ ev'.ran /\ ~ev'.expired
           /\ now' > player.speedBoostEnd)
        => (/\ Dist(player'.x, player.x) <= player.baseSpeed * ev'.dt
            /\ Dist(player'.y, player.y) <= player.baseSpeed * ev'.dt) ]_vars

\* No entity of the list is marked dead.
NoneDead(list) == \A i \in DOMAIN list : ~list[i].dead

\* What C31 says of the lists after an update step.
C31_NoDeadAfterUpdate ==
    ev.op = "tick" => (NoneDead(crops) /\ NoneDead(powerUps) /\ NoneDead(crows))

\* C31: after every update step no entity marked dead is left in the crop,
\* power-up or crow list, and no crop is counted twice: a crop that an
\* earlier step marked dead is not among the crops a step collects.
C31_DeadPurgedCountedOnce ==
    /\ []C31_NoDeadAfterUpdate
    /\ [][ (ev'.op = "tick" /\ ev'.nCol > 0)
           => \A i \in DOMAIN crops :
                 crops[i].dead => ~aabb(player', crops[i]) ]_vars

\* C32: time spent in PAUSED does not count against a boost in force: over
\* a frame that goes by in PAUSED the time the boost has left, its expiry
\* less the clock, stays what it was, so the boost resumes with the time it
\* had when the game was paused.
C32_PauseFreezesBoost ==
    [][ (ev'.op = "tick" /\ state = "PAUSED" /\ player.speedBoostEnd > now)
        => player'.speedBoostEnd - now' = player.speedBoostEnd - now ]_vars

\* The farthest a crow travels in one update step: 120 px/s for 33 ms, in
\* millipixels.
StepTravel == 120 * 33

\* C33: after every update step a crow at or beyond an edge of the world
\* on an axis heads back into the world on that axis, and no crow is
\* farther outside the world than one step's travel.
C33_CrowsReflectAndStay ==
    ev.op = "update"
      => \A i \in DOMAIN crows :
            /\ crows[i].x <= 0 => crows[i].angle[1] > 0
            /\ crows[i].x >= WIDTH * 1000 - crows[i].w => crows[i].angle[1] < 0
            /\ crows[i].y <= 0 => crows[i].angle[2] > 0
            /\ crows[i].y >= HEIGHT * 1000 - crows[i].h => crows[i].angle[2] < 0
            /\ crows[i].x >= 0 - StepTravel
            /\ crows[i].x <= WIDTH * 1000 - crows[i].w + StepTravel
            /\ crows[i].y >= 0 - StepTravel
            /\ crows[i].y <= HEIGHT * 1000 - crows[i].h + StepTravel

\* C34: under configurations with positive time limits, timeLeft > 0
\* whenever the state is PLAYING or PAUSED and timeLeft = 0 whenever it is
\* GAME_OVER, and GAME_OVER is entered only by a frame callback that found
\* the state PLAYING.
C34_TimeLeftMatchesState ==
    (\A i \in DOMAIN config.levels : config.levels[i].timeLimit > 0)
      => (/\ state \in {"PLAYING", "PAUSED"} => timeLeft > 0
          /\ state = "GAME_OVER" => timeLeft = 0
          /\ (state = "GAME_OVER" /\ ev.was # "GAME_OVER")
               => (ev.op = "tick" /\ ev.was = "PLAYING"))

\* C34's case: the time of a paused and resumed run at level 2 ran out on
\* a frame callback, short of the goal.
C34_Witness ==
    /\ state = "GAME_OVER"
    /\ timeLeft = 0
    /\ ev.op = "tick"
    /\ ev.was = "PLAYING"
    /\ level = 2
    /\ score < requiredScore
    /\ "p" \in keys

\* The tuning in force is that of level record r.
TuningOf(r) ==
    /\ spawnEvery = r.spawnEvery
    /\ crowSpawnEvery = r.crowSpawnEvery
    /\ powerUpSpawnEvery = r.powerUpSpawnEvery
    /\ maxTime = r.timeLimit

\* C35: whenever the state is PLAYING or PAUSED a configuration is loaded,
\* it has a record for the current level and the spawn intervals and
\* maxTime in force are those of that record; the intervals in force are
\* not the constructor's zeros.
C35_TuningIsCurrentLevels ==
    state \in {"PLAYING", "PAUSED"}
      => (/\ config.loaded
          /\ spawnEvery > 0 /\ crowSpawnEvery > 0 /\ powerUpSpawnEvery > 0
          /\ level <= Len(config.levels)
          /\ TuningOf(config.levels[level]))

\* C35 where the configuration has a record for the current level.
C35_TuningWhereRecorded ==
    state \in {"PLAYING", "PAUSED"}
      => (/\ config.loaded
          /\ spawnEvery > 0 /\ crowSpawnEvery > 0 /\ powerUpSpawnEvery > 0
          /\ level <= Len(config.levels) => TuningOf(config.levels[level]))

\* The time limits of the level records after level n.
RECURSIVE LimitsAfter(_)
LimitsAfter(n) ==
    IF n >= Len(config.levels) THEN 0
    ELSE config.levels[n + 1].timeLimit + LimitsAfter(n + 1)

\* The playing time a run has left at most: what is left of the level's
\* time and the time limits of the levels to come.
RemainingTime == timeLeft + LimitsAfter(level)

\* C36: with the built-in defaults, a run in PLAYING driven by frame
\* callbacks with positive elapsed time ends in GAME_OVER or WIN.  Stated
\* by its variant: every such callback requests the next one, and either
\* ends the run or leaves it in PLAYING, at the same level or the next, up
\* to level 3, with RemainingTime > 0 lowered by dt at least - the time
\* limit is re-armed only by a level advance, which uses up a level.
C36_EveryRunEnds ==
    [][ (ev'.op = "tick" /\ state = "PLAYING" /\ ev'.dt > 0
           /\ config = DefaultConfig)
        => (/\ ~ev'.threw
            /\ rafQueue' + rafRun' >= 1
            /\ IF state' = "PLAYING"
               THEN /\ level' \in {level, level + 1}
                    /\ level' <= 3
                    /\ RemainingTime' > 0
                    /\ RemainingTime' <= RemainingTime - ev'.dt
               ELSE state' \in {"GAME_OVER", "WIN"}) ]_vars

\* C36's case: the second and last re-arming of the time limit, at the
\* advance to level 3 of a run that had two frames of level 2's time left.
C36_Witness ==
    /\ config = DefaultConfig
    /\ ev.op = "tick"
    /\ ev.advanced
    /\ state = "PLAYING"
    /\ level = 3
    /\ timeLeft = 50000
    /\ requiredScore = 60
    /\ rafQueue = 1

=============================================================================
